---------------------------- MODULE Spec2Model ----------------------------
(***************************************************************************)
(* xh: duplicate-file finder.  Model of hasher.py (region and whole-file   *)
(* digests with the per-record digest cache), grouper.py (keyed bucketing) *)
(* and deduplicator.py (the size -> partial -> end -> middle -> ... cascade *)
(* with its statistics).                                                   *)
(*                                                                         *)
(* A file on disk is a run of zero bytes of a given length in which the    *)
(* bytes at the offsets in `marks` are non-zero.  A chunk read from a file *)
(* is the same thing, relative to the offset the read started at.          *)
(***************************************************************************)
EXTENDS Integers, Sequences, FiniteSets, TLC

(***************************************************************************)
(* Bounds of the model.                                                    *)
(***************************************************************************)
\* most records in one scan
MaxFiles == 3
\* most files of a scan that cannot be opened
MaxUnreadable == 1
\* most hasher calls made directly on one record (SpecHash)
MaxCalls == 3

Max(a, b) == IF a >= b THEN a ELSE b
Min(a, b) == IF a <= b THEN a ELSE b
Range(seq) == {seq[j] : j \in 1..Len(seq)}

(***************************************************************************)
(* hasher.py                                                               *)
(***************************************************************************)
FULL_HASH_THRESHOLD == 254 * 1024

\* Optional[bytes]: None, or a digest.  xxh64 is modelled as collision-free
\* on the chunks of the model: the digest of a chunk names its length and
\* its non-zero bytes.
None == [some |-> FALSE, len |-> 0, marks |-> {}]
\* in place of a returned value: the call raised an Exception
Raised == [some |-> FALSE, len |-> -1, marks |-> {}]
xxh64(chunk) == [some |-> TRUE, len |-> chunk.len, marks |-> chunk.marks]

\* f.seek(offset); f.read(n) on a file of the disk
ReadAt(file, offset, n) ==
    LET got == Max(0, Min(n, file.size - offset))
    IN  [len |-> got,
         marks |-> {m - offset : m \in {x \in file.marks : x >= offset /\ x < offset + got}}]

\* f.read() on a file of the disk
ReadAll(file) == [len |-> file.size, marks |-> file.marks]

\* get_chunk_size with `<` for `<=` at the tiers
get_chunk_size_strict(file_size) ==
    IF file_size <= FULL_HASH_THRESHOLD THEN file_size
    ELSE IF file_size < 5 * 1024 * 1024 THEN 64 * 1024
    ELSE IF file_size < 15 * 1024 * 1024 THEN 128 * 1024
    ELSE IF file_size < 30 * 1024 * 1024 THEN 256 * 1024
    ELSE IF file_size < 60 * 1024 * 1024 THEN 512 * 1024
    ELSE IF file_size < 120 * 1024 * 1024 THEN 1 * 1024 * 1024
    ELSE 2 * 1024 * 1024

get_chunk_size(file_size) ==
    IF file_size <= FULL_HASH_THRESHOLD THEN file_size
    ELSE IF file_size <= 5 * 1024 * 1024 THEN 64 * 1024
    ELSE IF file_size <= 15 * 1024 * 1024 THEN 128 * 1024
    ELSE IF file_size <= 30 * 1024 * 1024 THEN 256 * 1024
    ELSE IF file_size <= 60 * 1024 * 1024 THEN 512 * 1024
    ELSE IF file_size <= 120 * 1024 * 1024 THEN 1 * 1024 * 1024
    ELSE 2 * 1024 * 1024

\* The result of one hasher call: the value returned, the record as the call
\* leaves it, and what the call did to the disk and to the record:
\*   whole  - whole-file reads performed (open succeeded, f.read())
\*   part   - region reads performed (open succeeded, f.seek, f.read(n))
\*   failed - opens that raised
\*   wrote  - writes of the cached digest
Outcome(ret, rec, whole, part, failed, wrote) ==
    [ret |-> ret, rec |-> rec, whole |-> whole, part |-> part,
     failed |-> failed, wrote |-> wrote]

\* compute_hash_at_offset storing its digest on the record as compute_full_hash
\* does
compute_hash_at_offset_storing(file_info, offset, chunk_size, disk) ==
    IF ~disk[file_info.path].readable
    THEN Outcome(None, file_info, 0, 0, 1, 0)
    ELSE LET chunk == ReadAt(disk[file_info.path], offset, chunk_size)
         IN  IF chunk.len = 0
             THEN Outcome(None, file_info, 0, 1, 0, 0)
             ELSE Outcome(xxh64(chunk),
                          [file_info EXCEPT !.value = xxh64(chunk), !.full_hash = TRUE],
                          0, 1, 0, 1)

compute_hash_at_offset(file_info, offset, chunk_size, disk) ==
    IF ~disk[file_info.path].readable
    THEN Outcome(None, file_info, 0, 0, 1, 0)
    ELSE LET chunk == ReadAt(disk[file_info.path], offset, chunk_size)
         IN  IF chunk.len = 0
             THEN Outcome(None, file_info, 0, 1, 0, 0)
             ELSE Outcome(xxh64(chunk), file_info, 0, 1, 0, 0)

\* compute_full_hash without the look at the cached digest
compute_full_hash_uncached(file_info, disk) ==
    IF disk[file_info.path].readable
    THEN LET digest == xxh64(ReadAll(disk[file_info.path]))
         IN  Outcome(digest,
                     [file_info EXCEPT !.value = digest, !.full_hash = TRUE],
                     1, 0, 0, 1)
    ELSE Outcome(None, file_info, 0, 0, 1, 0)

\* compute_full_hash setting the flag before the read, so that a failed read
\* leaves it set
compute_full_hash_flag_first(file_info, disk) ==
    IF file_info.full_hash
    THEN Outcome(file_info.value, file_info, 0, 0, 0, 0)
    ELSE IF disk[file_info.path].readable
         THEN LET digest == xxh64(ReadAll(disk[file_info.path]))
              IN  Outcome(digest,
                          [file_info EXCEPT !.value = digest, !.full_hash = TRUE],
                          1, 0, 0, 1)
         ELSE Outcome(None, [file_info EXCEPT !.full_hash = TRUE], 0, 0, 1, 1)

compute_full_hash(file_info, disk) ==
    IF file_info.full_hash
    THEN Outcome(file_info.value, file_info, 0, 0, 0, 0)
    ELSE IF disk[file_info.path].readable
         THEN LET digest == xxh64(ReadAll(disk[file_info.path]))
              IN  Outcome(digest,
                          [file_info EXCEPT !.value = digest, !.full_hash = TRUE],
                          1, 0, 0, 1)
         ELSE Outcome(None, file_info, 0, 0, 1, 0)

\* The offset each decorated function reads its chunk from.
AnchorOffset(anchor, size, chunk_size) ==
    CASE anchor = "partial"       -> 0
      [] anchor = "end"           -> Max(0, size - chunk_size)
      [] anchor = "middle"        -> Max(0, (size - chunk_size) \div 2)
      [] anchor = "first_quarter" -> Max(0, (size \div 4) - (chunk_size \div 2))
      [] anchor = "third_quarter" -> Max(0, ((3 * size) \div 4) - (chunk_size \div 2))

\* The undecorated body of compute_<anchor>_hash.
region_hash(anchor, file_info, disk) ==
    LET size == file_info.size
        chunk_size == get_chunk_size(size)
    IN  compute_hash_at_offset(file_info, AnchorOffset(anchor, size, chunk_size),
                               chunk_size, disk)

\* the wrapper with `size < FULL_HASH_THRESHOLD`
wrapper_below_threshold(anchor, file_info, disk) ==
    IF file_info.full_hash
    THEN Outcome(file_info.value, file_info, 0, 0, 0, 0)
    ELSE IF file_info.size < FULL_HASH_THRESHOLD
         THEN compute_full_hash(file_info, disk)
         ELSE region_hash(anchor, file_info, disk)

\* use_full_hash_if_small.wrapper around the body for `anchor`.
wrapper(anchor, file_info, disk) ==
    IF file_info.full_hash
    THEN Outcome(file_info.value, file_info, 0, 0, 0, 0)
    ELSE IF file_info.size <= FULL_HASH_THRESHOLD
         THEN compute_full_hash(file_info, disk)
         ELSE region_hash(anchor, file_info, disk)

compute_partial_hash(file_info, disk) == wrapper("partial", file_info, disk)
compute_end_hash(file_info, disk) == wrapper("end", file_info, disk)
compute_middle_hash(file_info, disk) == wrapper("middle", file_info, disk)
compute_first_quarter_hash(file_info, disk) == wrapper("first_quarter", file_info, disk)
compute_third_quarter_hash(file_info, disk) == wrapper("third_quarter", file_info, disk)

(***************************************************************************)
(* grouper.py                                                              *)
(*                                                                         *)
(* A bucket is a sequence of positions in `files` (the code's buckets hold *)
(* references to the dicts of the input list).  A dict of buckets is a     *)
(* sequence of [key, members] in insertion order.                          *)
(***************************************************************************)
KeyIndex(groups, key) ==
    IF \E j \in 1..Len(groups) : groups[j].key = key
    THEN CHOOSE j \in 1..Len(groups) : groups[j].key = key
    ELSE 0

\* groups[key].append(item) on a defaultdict(list)
AppendTo(groups, key, item) ==
    LET j == KeyIndex(groups, key)
    IN  IF j = 0
        THEN Append(groups, [key |-> key, members |-> <<item>>])
        ELSE [groups EXCEPT ![j].members = Append(@, item)]

\* group_by_full_hash keyed by the middle chunk instead of the whole file
get_key_full_by_middle(stage, file_info, disk) ==
    CASE stage = "partial"       -> compute_partial_hash(file_info, disk)
      [] stage = "end"           -> compute_end_hash(file_info, disk)
      [] stage = "middle"        -> compute_middle_hash(file_info, disk)
      [] stage = "first_quarter" -> compute_first_quarter_hash(file_info, disk)
      [] stage = "third_quarter" -> compute_third_quarter_hash(file_info, disk)
      [] stage = "full"          -> compute_middle_hash(file_info, disk)
      [] stage = "key_func"      -> Outcome(disk[file_info.path].key_func, file_info, 0, 0, 0, 0)

\* The key function each group_by_<stage>_hash hands to group_files; "key_func"
\* is any other key function a caller hands to it: what it does on a record
\* (a key, None, or an Exception raised) is given with the file.
get_key(stage, file_info, disk) ==
    CASE stage = "partial"       -> compute_partial_hash(file_info, disk)
      [] stage = "end"           -> compute_end_hash(file_info, disk)
      [] stage = "middle"        -> compute_middle_hash(file_info, disk)
      [] stage = "first_quarter" -> compute_first_quarter_hash(file_info, disk)
      [] stage = "third_quarter" -> compute_third_quarter_hash(file_info, disk)
      [] stage = "full"          -> compute_full_hash(file_info, disk)
      [] stage = "key_func"      -> Outcome(disk[file_info.path].key_func, file_info, 0, 0, 0, 0)

\* the loop body without its try: an Exception of key_func ends the loop and
\* leaves group_files
group_files_item_no_try(acc, item, stage, disk) ==
    LET out == get_key(stage, acc.recs[item], disk)
    IN  IF acc.raised THEN acc
        ELSE [groups |-> IF out.ret # Raised /\ out.ret # None
                         THEN AppendTo(acc.groups, out.ret, item)
                         ELSE acc.groups,
              recs   |-> [acc.recs EXCEPT ![item] = out.rec],
              outs   |-> Append(acc.outs, [item |-> item, out |-> out]),
              raised |-> out.ret = Raised]

\* One iteration of the loop of group_files: key the record, keep it under
\* its key unless the key is None; an Exception of key_func is caught and
\* printed.  `acc` carries the dict built so far, the records as the key
\* functions have left them, the key functions' outcomes, and whether an
\* exception has left group_files.
group_files_item(acc, item, stage, disk) ==
    LET out == get_key(stage, acc.recs[item], disk)
    IN  [groups |-> IF out.ret = Raised THEN acc.groups
                    ELSE IF out.ret # None THEN AppendTo(acc.groups, out.ret, item)
                    ELSE acc.groups,
         recs   |-> [acc.recs EXCEPT ![item] = out.rec],
         outs   |-> Append(acc.outs, [item |-> item, out |-> out]),
         raised |-> acc.raised]

RECURSIVE group_files_loop(_, _, _, _, _)
group_files_loop(acc, file_infos, k, stage, disk) ==
    IF k > Len(file_infos) THEN acc
    ELSE group_files_loop(group_files_item(acc, file_infos[k], stage, disk),
                          file_infos, k + 1, stage, disk)

\* group_files giving up on the whole bucket when one record has no key
group_files_fragile(file_infos, stage, recs, disk) ==
    LET r == group_files_loop([groups |-> <<>>, recs |-> recs, outs |-> <<>>,
                               raised |-> FALSE],
                              file_infos, 1, stage, disk)
    IN  IF \E j \in 1..Len(r.outs) : r.outs[j].out.ret = None
        THEN [r EXCEPT !.groups = <<>>]
        ELSE r

group_files(file_infos, stage, recs, disk) ==
    group_files_loop([groups |-> <<>>, recs |-> recs, outs |-> <<>>, raised |-> FALSE],
                     file_infos, 1, stage, disk)

RECURSIVE group_by_size_loop(_, _, _, _)
group_by_size_loop(groups, file_infos, k, recs) ==
    IF k > Len(file_infos) THEN groups
    ELSE group_by_size_loop(AppendTo(groups, recs[file_infos[k]].size, file_infos[k]),
                            file_infos, k + 1, recs)

group_by_size(file_infos, recs) == group_by_size_loop(<<>>, file_infos, 1, recs)

(***************************************************************************)
(* deduplicator.py                                                         *)
(***************************************************************************)
VARIABLES
    disk,                  \* path -> the file: [readable, size, marks]
    files,                 \* the list handed to find_duplicates: records
                           \*   [path, size, full_hash, value]; full_hash is the
                           \*   truth value of "full_hash", value is "_full_hash_value"
    mode,                  \* find_duplicates' mode
    enable_stats,          \* find_duplicates' enable_stats
    pc,                    \* "scanned", "running" or "returned"
    size_groups,           \* the dict group_by_size returned
    todo,                  \* the buckets the nested loops have still to visit,
                           \*   next first: [stage to run, size, bucket]
    potential_duplicates,  \* the groups appended so far: [size, files]
    stats,                 \* stage -> [groups, files]
    calls,                 \* every group_files call so far: [stage, size, input, groups]
    keyed,                 \* path -> the stages that have keyed the record, in order
    io,                    \* path -> what the hasher did: [whole, part, failed, wrote]
    rets,                  \* path -> what the hasher calls on the record returned,
                           \*   in order: [fn, ret]
    ncalls,                \* how many hasher calls have been made
    prev                   \* what the earlier executions returned

vars == <<disk, files, mode, enable_stats, pc, size_groups, todo,
          potential_duplicates, stats, calls, keyed, io, rets, ncalls, prev>>

MODES == {"fast", "normal", "full"}
STAGES == <<"size", "partial", "end", "middle", "first_quarter", "third_quarter", "full">>
StageSet == {STAGES[j] : j \in 1..Len(STAGES)}

\* stats as find_duplicates sets it up ('time' is wall-clock and is left out)
ZeroStats == [stage \in StageSet |-> [groups |-> 0, files |-> 0]]

RECURSIVE SumLen(_)
SumLen(groups) ==
    IF groups = <<>> THEN 0 ELSE Len(Head(groups).members) + SumLen(Tail(groups))

HasTwo(group) == Len(group.members) >= 2

\* update_stats with `=` for `+=`
update_stats_overwrite(st, enabled, stage, result) ==
    IF ~enabled THEN st
    ELSE LET valid_groups == SelectSeq(result, HasTwo)
         IN  [st EXCEPT ![stage] = [groups |-> Len(valid_groups),
                                    files  |-> SumLen(valid_groups)]]

\* update_stats without its "2 or more files" filter
update_stats_unfiltered(st, enabled, stage, result) ==
    IF ~enabled THEN st
    ELSE [st EXCEPT ![stage] = [groups |-> @.groups + Len(result),
                                files  |-> @.files + SumLen(result)]]

update_stats(st, enabled, stage, result) ==
    IF ~enabled THEN st
    ELSE LET valid_groups == SelectSeq(result, HasTwo)
         IN  [st EXCEPT ![stage] = [groups |-> @.groups + Len(valid_groups),
                                    files  |-> @.files + SumLen(valid_groups)]]

\* the loop without its `if len(bucket) < 2: continue`
VisitAll(stage, size, groups) ==
    [j \in 1..Len(groups) |->
        [stage |-> stage, size |-> size, bucket |-> groups[j].members]]

\* the loop handing the next stage the whole dict's records instead of the
\* bucket at hand
RECURSIVE AllMembers(_)
AllMembers(groups) ==
    IF groups = <<>> THEN <<>> ELSE Head(groups).members \o AllMembers(Tail(groups))

VisitParent(stage, size, groups) ==
    LET valid == SelectSeq(groups, HasTwo)
    IN  [j \in 1..Len(valid) |->
            [stage |-> stage, size |-> size, bucket |-> AllMembers(groups)]]

\* `for key, bucket in groups.items(): if len(bucket) < 2: continue`
\* followed by the next stage on the bucket: the buckets the loop visits.
Visit(stage, size, groups) ==
    LET valid == SelectSeq(groups, HasTwo)
    IN  [j \in 1..Len(valid) |->
            [stage |-> stage, size |-> size, bucket |-> valid[j].members]]

\* the loop over size_groups.items() reporting the first key for every bucket
VisitSizesFirstKey(groups) ==
    LET valid == SelectSeq(groups, HasTwo)
    IN  [j \in 1..Len(valid) |->
            [stage |-> "partial", size |-> groups[1].key, bucket |-> valid[j].members]]

\* the loop over size_groups.items(): each bucket carries its own key as size
VisitSizes(groups) ==
    LET valid == SelectSeq(groups, HasTwo)
    IN  [j \in 1..Len(valid) |->
            [stage |-> "partial", size |-> valid[j].key, bucket |-> valid[j].members]]

\* [f["path"] for f in bucket]
PathsOf(bucket, recs) == [k \in 1..Len(bucket) |-> recs[bucket[k]].path]

\* potential_duplicates.append({"size": size, "files": [f["path"] for f in bucket]})
\* for every bucket of at least 2
Report(size, groups, recs) ==
    LET valid == SelectSeq(groups, HasTwo)
    IN  [j \in 1..Len(valid) |->
            [size |-> size, files |-> PathsOf(valid[j].members, recs)]]

\* normal mode always going on to third_quarter
NeverSkipThirdQuarter(fq_hash_group) == FALSE

\* normal mode, after first_quarter: "Skip third quarter if no reduction happened"
SkipThirdQuarter(fq_hash_group) ==
    LET valid_fq_groups == SelectSeq(fq_hash_group, HasTwo)
    IN  /\ Len(fq_hash_group) = Len(valid_fq_groups)
        /\ SumLen(fq_hash_group) = SumLen(valid_fq_groups)

\* the nesting with full mode leaving the end stage out
AfterStageFullNoEnd(md, stage) ==
    CASE stage = "partial" -> IF md = "full" THEN "middle" ELSE "end"
      [] stage = "end"     -> "middle"
      [] stage = "middle"  ->
            IF md = "fast" THEN "report"
            ELSE IF md = "normal" THEN "first_quarter"
            ELSE IF md = "full" THEN "full"
            ELSE "none"
      [] stage = "first_quarter" -> "third_quarter"
      [] stage = "third_quarter" -> "report"
      [] stage = "full"          -> "report"

\* the nesting with the end stage left out
AfterStageNoEnd(md, stage) ==
    CASE stage = "partial" -> "middle"
      [] stage = "end"     -> "middle"
      [] stage = "middle"  ->
            IF md = "fast" THEN "report"
            ELSE IF md = "normal" THEN "first_quarter"
            ELSE IF md = "full" THEN "full"
            ELSE "none"
      [] stage = "first_quarter" -> "third_quarter"
      [] stage = "third_quarter" -> "report"
      [] stage = "full"          -> "report"

\* the nesting with fast mode going on to the full stage
AfterStageFastFull(md, stage) ==
    CASE stage = "partial" -> "end"
      [] stage = "end"     -> "middle"
      [] stage = "middle"  ->
            IF md = "normal" THEN "first_quarter"
            ELSE IF md = "fast" \/ md = "full" THEN "full"
            ELSE "none"
      [] stage = "first_quarter" -> "third_quarter"
      [] stage = "third_quarter" -> "report"
      [] stage = "full"          -> "report"

\* The nesting of the loops: the stage run on each bucket of at least 2 that
\* `stage` produced, "report" where the bucket is appended to the result, and
\* "none" where the mode matches no branch.
AfterStage(md, stage) ==
    CASE stage = "partial" -> "end"
      [] stage = "end"     -> "middle"
      [] stage = "middle"  ->
            IF md = "fast" THEN "report"
            ELSE IF md = "normal" THEN "first_quarter"
            ELSE IF md = "full" THEN "full"
            ELSE "none"
      [] stage = "first_quarter" -> "third_quarter"
      [] stage = "third_quarter" -> "report"
      [] stage = "full"          -> "report"

\* What the loop body does with the dict a stage returned: the buckets it goes
\* on to visit (with the stage it runs on them) and the groups it appends.
Continue(md, stage, size, groups, recs) ==
    LET after == IF stage = "first_quarter" /\ SkipThirdQuarter(groups)
                 THEN "report"
                 ELSE AfterStage(md, stage)
    IN  IF after = "report"
        THEN [visit |-> <<>>, report |-> Report(size, groups, recs)]
        ELSE IF after = "none"
        THEN [visit |-> <<>>, report |-> <<>>]
        ELSE [visit |-> Visit(after, size, groups), report |-> <<>>]

\* The nested loops of find_duplicates run to their end: `visit` holds the
\* buckets still to visit, next first, and `dups` the groups appended so far.
RECURSIVE cascade(_, _, _, _, _)
cascade(md, visit, recs, dups, d) ==
    IF visit = <<>> THEN [duplicates |-> dups, recs |-> recs]
    ELSE LET task == Head(visit)
             g == group_files(task.bucket, task.stage, recs, d)
             c == Continue(md, task.stage, task.size, g.groups, g.recs)
         IN  cascade(md, c.visit \o Tail(visit), g.recs, dups \o c.report, d)

\* find_duplicates(file_infos, mode) as a function of the list and the disk:
\* the groups it returns and the records as it leaves them
find_duplicates(file_infos, md, d) ==
    cascade(md,
            VisitSizes(group_by_size([k \in 1..Len(file_infos) |-> k], file_infos)),
            file_infos, <<>>, d)

(***************************************************************************)
(* The directory a scan finds.  scan_directory (core.py) hands over one    *)
(* record per file, 'full_hash': None, sorted by size descending; sizes    *)
(* are > 0.  A file may have become unreadable since the scan listed it.   *)
(***************************************************************************)
FileSizes == {50 * 1024 * 1024, 10000}

\* Offsets of the byte in which one file of a size may differ from another:
\* one in each region a hasher function reads, and one in none of them.
Marks(size) ==
    IF size <= FULL_HASH_THRESHOLD THEN {0}
    ELSE {0, size \div 8, size \div 4, size \div 2, (3 * size) \div 4, size - 1}

Contents(size) == {{}} \cup {{m} : m \in Marks(size)}

\* The bytes of a file that cannot be opened are never seen: one content stands
\* for all of them.
DiskFiles ==
    UNION {[readable : {TRUE}, size : {sz}, marks : Contents(sz)]
           \cup [readable : {FALSE}, size : {sz}, marks : {{}}] : sz \in FileSizes}

Directories ==
    UNION {{d \in [1..n -> DiskFiles] :
                /\ \A i \in 1..n, j \in 1..n : i < j => d[i].size >= d[j].size
                /\ Cardinality({i \in 1..n : ~d[i].readable}) <= MaxUnreadable}
           : n \in 1..MaxFiles}

\* the record scan_directory appends for a path
FreshRecord(path, d) ==
    [path |-> path, size |-> d[path].size, full_hash |-> FALSE, value |-> None]

\* scan_directory over a directory whose path order is the sorted order; the
\* files in `skipped` fail os.access and are left out
RECURSIVE ScanFrom(_, _, _)
ScanFrom(d, path, skipped) ==
    IF path > Len(d) THEN <<>>
    ELSE (IF path \in skipped THEN <<>> ELSE <<FreshRecord(path, d)>>)
         \o ScanFrom(d, path + 1, skipped)

scan_directory(d, skipped) == ScanFrom(d, 1, skipped)

NoIo == [whole |-> 0, part |-> 0, failed |-> 0, wrote |-> 0]

Init ==
    /\ disk \in Directories
    /\ files = scan_directory(disk, {})
    /\ mode = "normal"
    /\ enable_stats = FALSE
    /\ pc = "scanned"
    /\ size_groups = <<>>
    /\ todo = <<>>
    /\ potential_duplicates = <<>>
    /\ stats = ZeroStats
    /\ calls = <<>>
    /\ keyed = [p \in DOMAIN disk |-> <<>>]
    /\ io = [p \in DOMAIN disk |-> NoIo]
    /\ rets = [p \in DOMAIN disk |-> <<>>]
    /\ ncalls = 0
    /\ prev = <<>>

\* the counters of `io` after the hasher outcomes `outs` of one group_files call
RECURSIVE IoAfter(_, _, _)
IoAfter(cnt, outs, recs) ==
    IF outs = <<>> THEN cnt
    ELSE LET o == Head(outs).out
             p == recs[Head(outs).item].path
         IN  IoAfter([cnt EXCEPT ![p] = [whole  |-> @.whole + o.whole,
                                         part   |-> @.part + o.part,
                                         failed |-> @.failed + o.failed,
                                         wrote  |-> @.wrote + o.wrote]],
                     Tail(outs), recs)

\* `rets` after the hasher outcomes `outs` of the calls of function `fn`
RECURSIVE RetsAfter(_, _, _, _)
RetsAfter(rt, outs, fn, recs) ==
    IF outs = <<>> THEN rt
    ELSE RetsAfter([rt EXCEPT ![recs[Head(outs).item].path] =
                        Append(@, [fn |-> fn, ret |-> Head(outs).out.ret])],
                   Tail(outs), fn, recs)

RECURSIVE KeyedAfter(_, _, _, _)
KeyedAfter(kd, bucket, stage, recs) ==
    IF bucket = <<>> THEN kd
    ELSE KeyedAfter([kd EXCEPT ![recs[Head(bucket)].path] = Append(@, stage)],
                    Tail(bucket), stage, recs)

\* find_duplicates up to its first loop: the set-up, stage 1 (size) and its stats
Start(m, st) ==
    /\ pc = "scanned"
    /\ pc' = "running"
    /\ mode' = m
    /\ enable_stats' = st
    /\ potential_duplicates' = <<>>
    /\ LET all == [k \in 1..Len(files) |-> k]
           groups == group_by_size(all, files)
       IN  /\ size_groups' = groups
           /\ stats' = update_stats(ZeroStats, st, "size", groups)
           /\ todo' = VisitSizes(groups)
           /\ keyed' = KeyedAfter(keyed, all, "size", files)
    /\ calls' = <<>>
    /\ UNCHANGED <<disk, files, io, rets, ncalls, prev>>

\* One pass of a loop body: the stage's group_by_* call on the bucket at hand,
\* update_stats, and what the body does with the dict.
RunStage(stage) ==
    /\ pc = "running"
    /\ todo # <<>>
    /\ Head(todo).stage = stage
    /\ \E g \in {group_files(Head(todo).bucket, stage, files, disk)} :
       \E c \in {Continue(mode, stage, Head(todo).size, g.groups, g.recs)} :
       LET task == Head(todo)
       IN  /\ files' = g.recs
           /\ stats' = update_stats(stats, enable_stats, stage, g.groups)
           /\ todo' = c.visit \o Tail(todo)
           /\ potential_duplicates' = potential_duplicates \o c.report
           /\ calls' = Append(calls, [stage |-> stage, size |-> task.size,
                                      input |-> task.bucket, groups |-> g.groups])
           /\ keyed' = KeyedAfter(keyed, task.bucket, stage, files)
           /\ io' = IoAfter(io, g.outs, files)
           /\ rets' = RetsAfter(rets, g.outs, stage, files)
           /\ ncalls' = ncalls + Len(g.outs)
    /\ UNCHANGED <<disk, mode, enable_stats, pc, size_groups, prev>>

PartialStage ==
    /\ pc = "running"
    /\ RunStage("partial")
EndStage ==
    /\ pc = "running"
    /\ RunStage("end")
MiddleStage ==
    /\ pc = "running"
    /\ RunStage("middle")
FirstQuarterStage ==
    /\ pc = "running"
    /\ RunStage("first_quarter")
ThirdQuarterStage ==
    /\ pc = "running"
    /\ RunStage("third_quarter")
FullStage ==
    /\ pc = "running"
    /\ RunStage("full")

\* the loops are over: find_duplicates returns potential_duplicates (and stats)
Return ==
    /\ pc = "running"
    /\ todo = <<>>
    /\ pc' = "returned"
    /\ UNCHANGED <<disk, files, mode, enable_stats, size_groups, todo,
                   potential_duplicates, stats, calls, keyed, io, rets, ncalls, prev>>

Stages ==
    \/ PartialStage
    \/ EndStage
    \/ MiddleStage
    \/ FirstQuarterStage
    \/ ThirdQuarterStage
    \/ FullStage

\* One execution of xh -w: scan, then find_duplicates once.
Next ==
    \/ \E m \in MODES, st \in BOOLEAN : Start(m, st)
    \/ Stages
    \/ Return

Spec == Init /\ [][Next]_vars

(***************************************************************************)
(* One execution over a directory of two files more than MaxFiles, of few  *)
(* kinds (SpecMany): files above the threshold that are equal, that differ *)
(* in their first byte or in a byte of the first quarter, or that cannot   *)
(* be opened, and equal files below the threshold.                         *)
(***************************************************************************)
ManyFiles ==
    [readable : {TRUE}, size : {50 * 1024 * 1024},
     marks : {{}, {0}, {(50 * 1024 * 1024) \div 4}}]
    \cup [readable : {FALSE}, size : {50 * 1024 * 1024}, marks : {{}}]
    \cup [readable : {TRUE}, size : {10000}, marks : {{}}]

ManyDirectories ==
    {d \in [1..(MaxFiles + 2) -> ManyFiles] :
        \A i \in 1..(MaxFiles + 2), j \in 1..(MaxFiles + 2) : i < j => d[i].size >= d[j].size}

InitMany ==
    /\ disk \in ManyDirectories
    /\ files = scan_directory(disk, {})
    /\ mode = "normal"
    /\ enable_stats = FALSE
    /\ pc = "scanned"
    /\ size_groups = <<>>
    /\ todo = <<>>
    /\ potential_duplicates = <<>>
    /\ stats = ZeroStats
    /\ calls = <<>>
    /\ keyed = [p \in DOMAIN disk |-> <<>>]
    /\ io = [p \in DOMAIN disk |-> NoIo]
    /\ rets = [p \in DOMAIN disk |-> <<>>]
    /\ ncalls = 0
    /\ prev = <<>>

SpecMany == InitMany /\ [][Next]_vars

(***************************************************************************)
(* Two executions of xh -w over one directory (SpecTwice): when the first  *)
(* has returned, the directory is scanned again and find_duplicates runs   *)
(* on the fresh records.  The second scan may leave out files that cannot  *)
(* be read (os.access fails), or list them as the first did.  main passes  *)
(* its ENABLE_STATS as enable_stats.                                       *)
(***************************************************************************)
ENABLE_STATS == TRUE

GroupPaths(groups, recs) ==
    [j \in 1..Len(groups) |->
        [key |-> groups[j].key, members |-> PathsOf(groups[j].members, recs)]]

UpToMiddle(call) == call.stage \in {"partial", "end", "middle"}

\* the size, partial, end and middle buckets of the run, by path
Buckets ==
    LET early == SelectSeq(calls, UpToMiddle)
    IN  [size   |-> GroupPaths(size_groups, files),
         hashed |-> [j \in 1..Len(early) |->
                        [stage  |-> early[j].stage,
                         size   |-> early[j].size,
                         input  |-> PathsOf(early[j].input, files),
                         groups |-> GroupPaths(early[j].groups, files)]]]

Returned ==
    [mode       |-> mode,
     input      |-> PathsOf([k \in 1..Len(files) |-> k], files),
     duplicates |-> potential_duplicates,
     buckets    |-> Buckets]

Rescan(skipped) ==
    /\ pc = "returned"
    /\ prev = <<>>
    /\ skipped \subseteq {p \in DOMAIN disk : ~disk[p].readable}
    /\ prev' = <<Returned>>
    /\ files' = scan_directory(disk, skipped)
    /\ pc' = "scanned"
    /\ size_groups' = <<>>
    /\ todo' = <<>>
    /\ potential_duplicates' = <<>>
    /\ stats' = ZeroStats
    /\ calls' = <<>>
    /\ keyed' = [p \in DOMAIN disk |-> <<>>]
    /\ io' = [p \in DOMAIN disk |-> NoIo]
    /\ rets' = [p \in DOMAIN disk |-> <<>>]
    /\ ncalls' = 0
    /\ mode' = "normal"
    /\ enable_stats' = FALSE
    /\ UNCHANGED disk

NextTwice ==
    \/ \E m \in MODES : Start(m, ENABLE_STATS)
    \/ Stages
    \/ Return
    \/ \E skipped \in SUBSET DOMAIN disk : Rescan(skipped)

SpecTwice == Init /\ [][NextTwice]_vars

(***************************************************************************)
(* find_duplicates called twice on one list of records (SpecReuse): when   *)
(* the first call has returned, the second is made on the same dicts, with *)
(* whatever the first call cached on them.                                 *)
(***************************************************************************)
CallAgain ==
    /\ pc = "returned"
    /\ prev = <<>>
    /\ prev' = <<Returned>>
    /\ pc' = "scanned"
    /\ size_groups' = <<>>
    /\ todo' = <<>>
    /\ potential_duplicates' = <<>>
    /\ stats' = ZeroStats
    /\ calls' = <<>>
    /\ keyed' = [p \in DOMAIN disk |-> <<>>]
    /\ io' = [p \in DOMAIN disk |-> NoIo]
    /\ rets' = [p \in DOMAIN disk |-> <<>>]
    /\ ncalls' = 0
    /\ mode' = "normal"
    /\ enable_stats' = FALSE
    /\ UNCHANGED <<disk, files>>

NextReuse ==
    \/ \E m \in MODES : Start(m, ENABLE_STATS)
    \/ Stages
    \/ Return
    \/ CallAgain

SpecReuse == Init /\ [][NextReuse]_vars

(***************************************************************************)
(* The hasher functions called directly on one record, in any order, while *)
(* the file is rewritten in place or loses and regains its read permission *)
(* between the calls (SpecHash).                                           *)
(***************************************************************************)
HashSizes == {10000, FULL_HASH_THRESHOLD, FULL_HASH_THRESHOLD + 1, 50 * 1024 * 1024}
HashContents == {{}, {0}}

InitHash ==
    /\ disk \in [{1} -> [readable : BOOLEAN, size : HashSizes, marks : HashContents]]
    /\ files = scan_directory(disk, {})
    /\ mode = "normal"
    /\ enable_stats = FALSE
    /\ pc = "scanned"
    /\ size_groups = <<>>
    /\ todo = <<>>
    /\ potential_duplicates = <<>>
    /\ stats = ZeroStats
    /\ calls = <<>>
    /\ keyed = [p \in DOMAIN disk |-> <<>>]
    /\ io = [p \in DOMAIN disk |-> NoIo]
    /\ rets = [p \in DOMAIN disk |-> <<>>]
    /\ ncalls = 0
    /\ prev = <<>>

pipeline == <<mode, enable_stats, pc, size_groups, todo, potential_duplicates,
              stats, calls, keyed, prev>>

\* one call of the hasher function `fn` on the record at position k
HashCall(fn, k) ==
    /\ ncalls < MaxCalls
    /\ LET out == get_key(fn, files[k], disk)
           outs == <<[item |-> k, out |-> out]>>
       IN  /\ files' = [files EXCEPT ![k] = out.rec]
           /\ io' = IoAfter(io, outs, files)
           /\ rets' = RetsAfter(rets, outs, fn, files)
    /\ ncalls' = ncalls + 1
    /\ UNCHANGED <<disk, pipeline>>

CallFullHash == \E k \in 1..Len(files) : HashCall("full", k)
CallPartialHash == \E k \in 1..Len(files) : HashCall("partial", k)
CallEndHash == \E k \in 1..Len(files) : HashCall("end", k)
CallMiddleHash == \E k \in 1..Len(files) : HashCall("middle", k)
CallFirstQuarterHash == \E k \in 1..Len(files) : HashCall("first_quarter", k)
CallThirdQuarterHash == \E k \in 1..Len(files) : HashCall("third_quarter", k)

\* the file is rewritten in place
Rewrite(path, marks) ==
    /\ disk[path].marks # marks
    /\ disk' = [disk EXCEPT ![path].marks = marks]
    /\ UNCHANGED <<files, io, rets, ncalls, pipeline>>

\* the file loses or regains its read permission
Chmod(path) ==
    /\ disk' = [disk EXCEPT ![path].readable = ~@]
    /\ UNCHANGED <<files, io, rets, ncalls, pipeline>>

NextHash ==
    \/ CallFullHash
    \/ CallPartialHash
    \/ CallEndHash
    \/ CallMiddleHash
    \/ CallFirstQuarterHash
    \/ CallThirdQuarterHash
    \/ \E path \in DOMAIN disk, marks \in HashContents : Rewrite(path, marks)
    \/ \E path \in DOMAIN disk : Chmod(path)

SpecHash == InitHash /\ [][NextHash]_vars

(***************************************************************************)
(* group_files called once on a list of records with a key function of the *)
(* caller's, which returns one of two keys or None, or raises (SpecGroup).  *)
(***************************************************************************)
KeyFuncOutcomes ==
    {Raised, None, xxh64([len |-> 1, marks |-> {}]), xxh64([len |-> 2, marks |-> {}])}

\* the lists of distinct positions of a list of n records
Arrangements(n) ==
    UNION {{a \in [1..m -> 1..n] : \A i, j \in 1..m : i # j => a[i] # a[j]} : m \in 1..n}

InitGroup ==
    /\ disk \in UNION {[1..n -> [readable : {TRUE}, size : {10000}, marks : {{}},
                                 key_func : KeyFuncOutcomes]] : n \in 1..MaxFiles}
    /\ files = scan_directory(disk, {})
    /\ mode = "normal"
    /\ enable_stats = FALSE
    /\ pc = "scanned"
    /\ size_groups = <<>>
    /\ todo = <<>>
    /\ potential_duplicates = <<>>
    /\ stats = ZeroStats
    /\ calls = <<>>
    /\ keyed = [p \in DOMAIN disk |-> <<>>]
    /\ io = [p \in DOMAIN disk |-> NoIo]
    /\ rets = [p \in DOMAIN disk |-> <<>>]
    /\ ncalls = 0
    /\ prev = <<>>

\* group_files(file_infos, key_func): it returns its dict, or an exception
\* leaves it
CallGroupFiles(file_infos) ==
    /\ pc = "scanned"
    /\ \E g \in {group_files(file_infos, "key_func", files, disk)} :
          /\ pc' = IF g.raised THEN "raised" ELSE "returned"
          /\ files' = g.recs
          /\ calls' = <<[stage |-> "key_func", size |-> 0,
                         input |-> file_infos, groups |-> g.groups]>>
          /\ rets' = RetsAfter(rets, g.outs, "key_func", files)
          /\ ncalls' = ncalls + Len(g.outs)
    /\ UNCHANGED <<disk, mode, enable_stats, size_groups, todo,
                   potential_duplicates, stats, keyed, io, prev>>

NextGroup == \E file_infos \in Arrangements(Len(files)) : CallGroupFiles(file_infos)

SpecGroup == InitGroup /\ [][NextGroup]_vars

(***************************************************************************)
(* The region functions called on one readable file whose size is at, one  *)
(* byte below or one byte above a tier of get_chunk_size (SpecChunk).      *)
(***************************************************************************)
TierBounds == <<5 * 1024 * 1024, 15 * 1024 * 1024, 30 * 1024 * 1024,
                60 * 1024 * 1024, 120 * 1024 * 1024>>

ChunkSizes ==
    {FULL_HASH_THRESHOLD + 1, 200 * 1024 * 1024}
    \cup UNION {{TierBounds[t] - 1, TierBounds[t], TierBounds[t] + 1} : t \in 1..Len(TierBounds)}

InitChunk ==
    /\ disk \in [{1} -> [readable : {TRUE}, size : ChunkSizes, marks : {{}}]]
    /\ files = scan_directory(disk, {})
    /\ mode = "normal"
    /\ enable_stats = FALSE
    /\ pc = "scanned"
    /\ size_groups = <<>>
    /\ todo = <<>>
    /\ potential_duplicates = <<>>
    /\ stats = ZeroStats
    /\ calls = <<>>
    /\ keyed = [p \in DOMAIN disk |-> <<>>]
    /\ io = [p \in DOMAIN disk |-> NoIo]
    /\ rets = [p \in DOMAIN disk |-> <<>>]
    /\ ncalls = 0
    /\ prev = <<>>

NextChunk ==
    \/ CallPartialHash
    \/ CallEndHash
    \/ CallMiddleHash
    \/ CallFirstQuarterHash
    \/ CallThirdQuarterHash

SpecChunk == InitChunk /\ [][NextChunk]_vars

(***************************************************************************)
(* Properties of one execution (Spec).                                     *)
(***************************************************************************)
InputPaths == {files[k].path : k \in 1..Len(files)}
SizeOfPath(path) == files[CHOOSE k \in 1..Len(files) : files[k].path = path].size
WholeDigest(path) == xxh64(ReadAll(disk[path]))
\* the digest of the chunk at an anchor, read from the disk
RegionDigest(anchor, path) == region_hash(anchor, FreshRecord(path, disk), disk).ret
SingletonProduced == \E j \in 1..Len(calls) : \E g \in Range(calls[j].groups) : Len(g.members) = 1

\* C1: in every mode and for every input, unreadable files included, every
\* bucket a later stage is run on, every bucket still waiting for its stage and
\* every reported group has at least 2 files.
C1_Pruning ==
    /\ \A t \in Range(todo) : Len(t.bucket) >= 2
    /\ \A c \in Range(calls) : Len(c.input) >= 2
    /\ \A g \in Range(potential_duplicates) : Len(g.files) >= 2

\* a stage produced a bucket of one file, and the run still reported a group
C1_Witness ==
    /\ pc = "returned"
    /\ SingletonProduced
    /\ potential_duplicates # <<>>

\* C2: the 'size' of every reported group is the 'size' field of every record
\* whose path the group lists.
C2_SizeHomogeneity ==
    \A g \in Range(potential_duplicates) :
        \A path \in Range(g.files) :
            \A k \in 1..Len(files) : files[k].path = path => files[k].size = g.size

\* a group was reported out of an input holding two sizes
C2_Witness ==
    /\ pc = "returned"
    /\ potential_duplicates # <<>>
    /\ \E i, j \in 1..Len(files) : files[i].size # files[j].size

\* two readable same-size files that agree in the front, end and middle chunks
\* and differ as whole files
LookAlike(p, q) ==
    /\ p # q
    /\ disk[p].readable /\ disk[q].readable
    /\ SizeOfPath(p) = SizeOfPath(q)
    /\ \A anchor \in {"partial", "end", "middle"} :
            RegionDigest(anchor, p) = RegionDigest(anchor, q)
    /\ WholeDigest(p) # WholeDigest(q)

Together(p, q) ==
    \E g \in Range(potential_duplicates) : p \in Range(g.files) /\ q \in Range(g.files)

\* C3: in full mode any two files of one reported group have equal whole-file
\* digests, so two files that agree in front, end and middle and differ as
\* wholes are never reported together; fast mode reports such a pair together.
C3_FullModeWholeDigest ==
    /\ mode = "full" =>
          \A g \in Range(potential_duplicates) :
              \A p, q \in Range(g.files) : WholeDigest(p) = WholeDigest(q)
    /\ (pc = "returned" /\ mode = "fast") =>
          \A p, q \in InputPaths : LookAlike(p, q) => Together(p, q)

\* a full-mode run over such a pair that reported a group
C3_Witness ==
    /\ pc = "returned"
    /\ mode = "full"
    /\ potential_duplicates # <<>>
    /\ \E p, q \in InputPaths : LookAlike(p, q)

\* the fixed order of the stages of a mode
ModeOrder(md) ==
    CASE md = "fast"   -> <<"size", "partial", "end", "middle">>
      [] md = "normal" -> <<"size", "partial", "end", "middle", "first_quarter", "third_quarter">>
      [] md = "full"   -> <<"size", "partial", "end", "middle", "full">>

IsPrefix(s, t) == Len(s) <= Len(t) /\ \A j \in 1..Len(s) : s[j] = t[j]
PositionIn(order, stage) == CHOOSE j \in 1..Len(order) : order[j] = stage

\* the bucket was produced, with at least 2 members, by `stage` before call j
ProducedBefore(bucket, stage, j) ==
    IF stage = "size"
    THEN \E g \in Range(size_groups) : g.members = bucket /\ Len(bucket) >= 2
    ELSE \E i \in 1..(j - 1) :
            /\ calls[i].stage = stage
            /\ \E g \in Range(calls[i].groups) : g.members = bucket /\ Len(bucket) >= 2

\* C8: the stages that key a record form a prefix of the fixed order of the
\* mode; a stage is only run on a bucket of at least 2 that the stage before it
\* in that order produced; no mode runs a stage outside its order.
C8_StageOrdering ==
    pc # "scanned" =>
        /\ \A p \in DOMAIN keyed : IsPrefix(keyed[p], ModeOrder(mode))
        /\ \A j \in 1..Len(calls) :
              /\ calls[j].stage \in Range(ModeOrder(mode)) \ {"size"}
              /\ ProducedBefore(calls[j].input,
                                ModeOrder(mode)[PositionIn(ModeOrder(mode), calls[j].stage) - 1],
                                j)

\* a normal run that keyed one record by all six stages and dropped another
\* on the way
C8_Witness ==
    /\ pc = "returned"
    /\ mode = "normal"
    /\ \E p, q \in DOMAIN keyed :
          /\ keyed[p] = ModeOrder("normal")
          /\ Len(keyed[q]) >= 2
          /\ Len(keyed[q]) < Len(ModeOrder("normal"))

Reported == {g.files : g \in Range(potential_duplicates)}

\* C9: in normal mode, for each bucket first_quarter was run on: if its result
\* holds no bucket of one file, third_quarter is run on none of its files and
\* the first_quarter buckets are the groups reported for it; otherwise
\* third_quarter is run on exactly the first_quarter buckets of at least 2 and
\* the groups reported for it are the third_quarter buckets of at least 2.
C9_NormalShortCircuit ==
    (pc = "returned" /\ mode = "normal") =>
        \A j \in 1..Len(calls) :
            calls[j].stage = "first_quarter" =>
                LET fq == Range(calls[j].groups)
                    inside == Range(PathsOf(calls[j].input, files))
                    tq == {i \in 1..Len(calls) :
                              /\ calls[i].stage = "third_quarter"
                              /\ Range(calls[i].input) \subseteq Range(calls[j].input)}
                    reported == {fs \in Reported : Range(fs) \subseteq inside}
                IN  IF \A g \in fq : Len(g.members) >= 2
                    THEN /\ tq = {}
                         /\ reported = {PathsOf(g.members, files) : g \in fq}
                    ELSE /\ {calls[i].input : i \in tq}
                                = {g.members : g \in {h \in fq : Len(h.members) >= 2}}
                         /\ reported =
                                UNION {{PathsOf(g.members, files) :
                                            g \in {h \in Range(calls[i].groups) :
                                                      Len(h.members) >= 2}} : i \in tq}

\* a normal run in which first_quarter split a file off, third_quarter was run
\* on the rest, and a group was reported
C9_Witness ==
    /\ pc = "returned"
    /\ mode = "normal"
    /\ \E j \in 1..Len(calls) : calls[j].stage = "third_quarter"
    /\ potential_duplicates # <<>>

\* the stage whose buckets a mode reports
ReportingStage(md) ==
    CASE md = "fast" -> "middle" [] md = "normal" -> "third_quarter" [] md = "full" -> "full"

\* C10 as stated: a run with statistics that reports no group has a group count
\* of 0 at every stage.
C10_AllStagesZero ==
    (pc = "returned" /\ enable_stats /\ potential_duplicates = <<>>) =>
        \A stage \in StageSet : stats[stage].groups = 0

\* C10, amended: a run with statistics that reports no group has a group count
\* of 0 at the stage whose buckets its mode reports and at every stage its
\* mode does not run, and at every stage when no two records have one size.
C10_ReportingStageZero ==
    (pc = "returned" /\ enable_stats /\ potential_duplicates = <<>>) =>
        /\ stats[ReportingStage(mode)].groups = 0
        /\ \A stage \in StageSet \ Range(ModeOrder(mode)) : stats[stage].groups = 0
        /\ (\A i, j \in 1..Len(files) : i # j => files[i].size # files[j].size) =>
                \A stage \in StageSet : stats[stage].groups = 0

\* a run with statistics that reported nothing and counted a size bucket
C10_Witness ==
    /\ pc = "returned"
    /\ enable_stats
    /\ potential_duplicates = <<>>
    /\ stats["size"].groups > 0

(***************************************************************************)
(* Properties of two executions (SpecTwice).                               *)
(***************************************************************************)
Unreadable(paths) == {p \in paths : ~disk[p].readable}
Without(seq, x) == SelectSeq(seq, LAMBDA y : y # x)

\* the first execution listed exactly one unreadable file, and this one ran
\* in the same mode on the same list without it
SecondRunWithoutTheUnreadable ==
    /\ prev # <<>>
    /\ prev[1].mode = mode
    /\ \E x \in Range(prev[1].input) :
          /\ Unreadable(Range(prev[1].input)) = {x}
          /\ PathsOf([k \in 1..Len(files) |-> k], files) = Without(prev[1].input, x)

\* C4: with exactly one unreadable record in the input, find_duplicates runs
\* on (a stage or the return can always be taken) and returns the candidate groups
\* it returns for the input without that record, in every mode.
C4_FaultIsolation ==
    /\ pc = "running" => (todo = <<>> \/ Head(todo).stage \in StageSet \ {"size"})
    /\ (pc = "returned" /\ SecondRunWithoutTheUnreadable) =>
            potential_duplicates = prev[1].duplicates

\* the unreadable file shared its size with two files that were reported
C4_Witness ==
    /\ pc = "returned"
    /\ SecondRunWithoutTheUnreadable
    /\ potential_duplicates # <<>>
    /\ \E x \in Unreadable(Range(prev[1].input)) :
          \E g \in Range(prev[1].buckets.size) : x \in Range(g.members) /\ Len(g.members) >= 3

\* this execution ran on the list the first one ran on
SecondRunOnSameInput ==
    /\ prev # <<>>
    /\ prev[1].input = PathsOf([k \in 1..Len(files) |-> k], files)

\* C7: runs over the same records and files produce the same size, partial,
\* end and middle buckets (keys, members, order) whatever their modes.
C7_ModeEquivalence ==
    (pc = "returned" /\ SecondRunOnSameInput) => Buckets = prev[1].buckets

\* two runs in different modes that both got to the middle stage
C7_Witness ==
    /\ pc = "returned"
    /\ SecondRunOnSameInput
    /\ prev[1].mode # mode
    /\ \E c \in Range(calls) : c.stage = "middle"
    /\ prev[1].duplicates # potential_duplicates

(***************************************************************************)
(* Properties of two calls on one list of records (SpecReuse).             *)
(***************************************************************************)
\* what the mode of this call returns for records fresh from a scan of the disk
FreshResult == find_duplicates(scan_directory(disk, {}), mode, disk).duplicates

ContainedInFresh(group) ==
    \E f \in Range(FreshResult) :
        /\ f.size = group.size
        /\ Range(group.files) \subseteq Range(f.files)

\* C11 as stated: a second call on the same list, in any mode after any mode,
\* returns the groups its mode returns on fresh records.
C11_NoCarryOver ==
    (pc = "returned" /\ prev # <<>>) =>
        Range(potential_duplicates) = Range(FreshResult)

\* C11, amended: a second call on the same list returns what its mode returns
\* on fresh records when the first call was in fast or normal mode, and the
\* same set of groups when the second call is in full mode; in every case
\* each group it returns lies within one group of the result on fresh records.
C11_CarryOverAfterFull ==
    (pc = "returned" /\ prev # <<>>) =>
        /\ prev[1].mode \in {"fast", "normal"} => potential_duplicates = FreshResult
        /\ mode = "full" => Range(potential_duplicates) = Range(FreshResult)
        /\ \A g \in Range(potential_duplicates) : ContainedInFresh(g)

\* a second call that found cached digests on records above the threshold and
\* returned a group
C11_Witness ==
    /\ pc = "returned"
    /\ prev # <<>>
    /\ prev[1].mode = "full"
    /\ potential_duplicates # <<>>
    /\ \E k \in 1..Len(files) :
          /\ files[k].size > FULL_HASH_THRESHOLD
          /\ files[k].full_hash
          /\ Len(keyed[files[k].path]) >= 2

(***************************************************************************)
(* Properties of the hasher functions (SpecHash).                          *)
(***************************************************************************)
\* the calls on a record that went, or were redirected, to compute_full_hash
WholeRoute(k) ==
    {j \in 1..Len(rets[files[k].path]) :
        \/ rets[files[k].path][j].fn = "full"
        \/ files[k].size <= FULL_HASH_THRESHOLD}

\* C5: over any sequence of calls of compute_full_hash, or of a region function
\* redirected to it, on one record: once a call has returned a digest every
\* later call returns that digest, the whole file is read at most once and
\* the cached digest is written at most once, whatever happens to the file
\* between the calls.
C5_CachingIdempotence ==
    \A k \in 1..Len(files) :
        LET path == files[k].path
        IN  /\ io[path].whole <= 1
            /\ io[path].wrote <= 1
            /\ \A i, j \in WholeRoute(k) :
                  (i < j /\ rets[path][i].ret # None) =>
                        rets[path][j].ret = rets[path][i].ret

\* compute_full_hash returned a digest, the file was rewritten, and a second
\* call returned a digest again
C5_Witness ==
    \E k \in 1..Len(files) :
        /\ disk[files[k].path].readable
        /\ files[k].value # None
        /\ files[k].value # WholeDigest(files[k].path)
        /\ \E i, j \in WholeRoute(k) :
              /\ i < j
              /\ rets[files[k].path][i].fn = "full"
              /\ rets[files[k].path][j].fn = "full"
              /\ rets[files[k].path][i].ret # None

\* C6: for a record of size <= 254 KiB no region function reads a chunk: all
\* five return what compute_full_hash returns for the record (the cached
\* whole-file digest), and all the calls together read the file once at most.
C6_SmallFileShortCircuit ==
    \A k \in 1..Len(files) :
        files[k].size <= FULL_HASH_THRESHOLD =>
            LET path == files[k].path
                out == compute_full_hash(files[k], disk)
            IN  /\ io[path].part = 0
                /\ io[path].whole <= 1
                /\ \A j \in 1..Len(rets[path]) :
                      rets[path][j].ret # None =>
                          /\ files[k].full_hash
                          /\ rets[path][j].ret = out.ret
                          /\ out.whole = 0

\* a region function, a different region function and compute_full_hash were
\* called on a record of exactly 254 KiB and returned a digest
C6_Witness ==
    \E k \in 1..Len(files) :
        /\ files[k].size = FULL_HASH_THRESHOLD
        /\ \E a, b, c \in 1..Len(rets[files[k].path]) :
              /\ rets[files[k].path][a].fn = "third_quarter"
              /\ rets[files[k].path][b].fn = "end"
              /\ rets[files[k].path][c].fn = "full"
              /\ rets[files[k].path][a].ret # None
              /\ rets[files[k].path][b].ret # None
              /\ rets[files[k].path][c].ret # None

\* the step is a call of compute_full_hash, direct or from a region function,
\* on the record at position k
WholeCallOn(k) ==
    LET path == files[k].path
    IN  /\ Len(rets'[path]) = Len(rets[path]) + 1
        /\ \/ rets'[path][Len(rets'[path])].fn = "full"
           \/ files[k].size <= FULL_HASH_THRESHOLD

\* C13: a call of compute_full_hash on a record without a cached digest whose
\* file cannot be opened returns None and leaves the record as it was, with no
\* digest and no flag; and a record carries the flag only with the digest of a
\* whole-file read that succeeded.
C13_FailureLeavesRecord ==
    [][\A k \in 1..Len(files) :
          /\ (WholeCallOn(k) /\ ~files[k].full_hash /\ ~disk[files[k].path].readable) =>
                /\ rets'[files[k].path][Len(rets'[files[k].path])].ret = None
                /\ files'[k] = files[k]
                /\ ~files'[k].full_hash
                /\ files'[k].value = None
          /\ files'[k].full_hash =>
                /\ files'[k].value # None
                /\ io'[files[k].path].whole = 1]_vars

\* compute_full_hash failed on a file that could not be opened, the file became
\* readable, and the next call read it and returned its digest
C13_Witness ==
    \E k \in 1..Len(files) :
        LET r == rets[files[k].path]
        IN  /\ Len(r) >= 2
            /\ r[1].fn = "full" /\ r[1].ret = None
            /\ r[2].fn = "full" /\ r[2].ret = WholeDigest(files[k].path)
            /\ io[files[k].path].failed = 1
            /\ files[k].full_hash

(***************************************************************************)
(* Properties of get_chunk_size (SpecChunk).                               *)
(***************************************************************************)
\* the chunk sizes of the table, lowest tier first
TierChunks == <<64 * 1024, 128 * 1024, 256 * 1024, 512 * 1024, 1024 * 1024, 2 * 1024 * 1024>>

\* the tier the table gives a size: the first whose bound is not below it
TierOf(size) ==
    IF \E t \in 1..Len(TierBounds) : size <= TierBounds[t]
    THEN CHOOSE t \in 1..Len(TierBounds) :
            /\ size <= TierBounds[t]
            /\ \A u \in 1..(t - 1) : size > TierBounds[u]
    ELSE Len(TierBounds) + 1

\* C12: for every size above 254 KiB get_chunk_size returns the chunk size of
\* the table (64 KiB up to 5 MiB, 128 KiB up to 15 MiB, 256 KiB up to 30 MiB,
\* 512 KiB up to 60 MiB, 1 MiB up to 120 MiB, 2 MiB above); at each bound the
\* size at the bound and the size one byte below get the lower tier and the
\* size one byte above the next; every region function reads a chunk of that
\* length.
C12_ChunkSizeTable ==
    \A k \in 1..Len(files) :
        LET size == files[k].size
        IN  size > FULL_HASH_THRESHOLD =>
                /\ get_chunk_size(size) = TierChunks[TierOf(size)]
                /\ \A t \in 1..Len(TierBounds) :
                      /\ size \in {TierBounds[t] - 1, TierBounds[t]} =>
                            get_chunk_size(size) = TierChunks[t]
                      /\ size = TierBounds[t] + 1 =>
                            get_chunk_size(size) = TierChunks[t + 1]
                /\ \A j \in 1..Len(rets[files[k].path]) :
                      rets[files[k].path][j].ret.len = TierChunks[TierOf(size)]

\* the end chunk and another were read from a file of exactly 30 MiB, or of
\* 120 MiB and one byte
C12_Witness ==
    \E k \in 1..Len(files) :
        /\ files[k].size \in {TierBounds[3], TierBounds[5] + 1}
        /\ Len(rets[files[k].path]) >= 2
        /\ \E j \in 1..Len(rets[files[k].path]) : rets[files[k].path][j].fn = "end"

(***************************************************************************)
(* Properties of group_files (SpecGroup).                                  *)
(***************************************************************************)
\* what key_func did on the record at a position during the call
KeyFuncOn(item) == rets[files[item].path][1].ret

WithKey(file_infos, key) == SelectSeq(file_infos, LAMBDA item : KeyFuncOn(item) = key)

\* C14: group_files returns, whatever key_func does on each record; the dict
\* has one bucket per key that key_func returned, the bucket of a key holds
\* the records key_func returned it for, in the order of the input, so that
\* no bucket is empty and a record on which key_func returned None or raised
\* is in none.
C14_Partition ==
    /\ pc # "raised"
    /\ pc = "returned" =>
          \A c \in Range(calls) :
              /\ \A i, j \in 1..Len(c.groups) : i # j => c.groups[i].key # c.groups[j].key
              /\ \A g \in Range(c.groups) :
                    /\ g.key \notin {None, Raised}
                    /\ g.members # <<>>
                    /\ g.members = WithKey(c.input, g.key)
              /\ \A item \in Range(c.input) :
                    IF KeyFuncOn(item) \in {None, Raised}
                    THEN \A g \in Range(c.groups) : item \notin Range(g.members)
                    ELSE \E g \in Range(c.groups) : g.key = KeyFuncOn(item)

\* key_func raised on the first record of the list, and the dict returned
\* has a bucket of two records that came later, not in the order of `files`
C14_Witness ==
    /\ pc = "returned"
    /\ \E c \in Range(calls) :
          /\ KeyFuncOn(c.input[1]) = Raised
          /\ \E g \in Range(c.groups) :
                /\ Len(g.members) = 2
                /\ g.members[1] > g.members[2]

(***************************************************************************)
(* Properties of one execution over the larger directories (SpecMany).     *)
(***************************************************************************)
\* C15: the records of the input having distinct paths, in every mode no two
\* reported groups share a path, no group lists a path twice, and every path
\* listed is the path of a record of the input.
C15_DisjointGroups ==
    /\ \A i, j \in 1..Len(potential_duplicates) :
          i # j => Range(potential_duplicates[i].files)
                      \cap Range(potential_duplicates[j].files) = {}
    /\ \A g \in Range(potential_duplicates) :
          /\ \A a, b \in 1..Len(g.files) : a # b => g.files[a] # g.files[b]
          /\ Range(g.files) \subseteq InputPaths

\* a run reported two groups out of one size bucket
C15_Witness ==
    /\ pc = "returned"
    /\ Len(potential_duplicates) >= 2
    /\ potential_duplicates[1].size = potential_duplicates[2].size

RECURSIVE SumFiles(_)
SumFiles(duplicates) ==
    IF duplicates = <<>> THEN 0
    ELSE Len(Head(duplicates).files) + SumFiles(Tail(duplicates))

\* C16: with statistics, in fast mode stats['middle'] and in full mode
\* stats['full'] count as groups the groups reported and as files the paths
\* the reported groups list, for every input, files that cannot be opened
\* included.
C16_TerminalStageStats ==
    (enable_stats /\ pc # "scanned" /\ mode \in {"fast", "full"}) =>
        /\ stats[ReportingStage(mode)].groups = Len(potential_duplicates)
        /\ stats[ReportingStage(mode)].files = SumFiles(potential_duplicates)

\* a run with statistics reported two groups out of two calls of its last
\* stage, with a file in the input that could not be opened
C16_Witness ==
    /\ pc = "returned"
    /\ enable_stats
    /\ mode \in {"fast", "full"}
    /\ Len(potential_duplicates) = 2
    /\ potential_duplicates[1].size # potential_duplicates[2].size
    /\ \E p \in InputPaths : ~disk[p].readable

(***************************************************************************)
(* The records during one execution (Spec).                                *)
(***************************************************************************)
\* C17: the list keeps its records, and each record its path and size; a
\* record carries a cached digest only after a whole-file read of its file
\* succeeded, and then the digest of the file; a record above 254 KiB carries
\* none in fast and normal mode, and in full mode only once the full stage has
\* keyed it.
C17_Frame ==
    /\ Len(files) = Len(disk)
    /\ \A k \in 1..Len(files) :
          /\ files[k].path = k
          /\ files[k].size = disk[k].size
          /\ IF files[k].full_hash
             THEN /\ files[k].value = WholeDigest(k)
                  /\ disk[k].readable
                  /\ io[k].whole = 1
                  /\ files[k].size > FULL_HASH_THRESHOLD =>
                        /\ mode = "full"
                        /\ \E j \in 1..Len(keyed[k]) : keyed[k][j] = "full"
             ELSE /\ files[k].value = None
                  /\ io[k].whole = 0

\* a full run cached the digest of one record above the threshold and left
\* another, dropped at an earlier stage, without
C17_Witness ==
    /\ pc = "returned"
    /\ mode = "full"
    /\ \E a, b \in 1..Len(files) :
          /\ files[a].size > FULL_HASH_THRESHOLD
          /\ files[a].full_hash
          /\ files[b].size > FULL_HASH_THRESHOLD
          /\ disk[b].readable
          /\ Len(keyed[b]) >= 2
          /\ ~files[b].full_hash

=============================================================================
